---- MODULE Spec2Model ----
(***************************************************************************)
(* gotest-report: the event aggregator processTestEvents (src/main.go,     *)
(* lines 332-456) as a state machine.  One step of the machine is one      *)
(* iteration of the scanner loop (one input line), and one further step is *)
(* the finalisation that runs after the loop.  generateMarkdownReport      *)
(* (lines 458-817) is one step on the returned model; its other            *)
(* definition (lines 1034-1260) is a step of its own.                      *)
(*                                                                         *)
(* Strings are sequences of one-character strings, so that                 *)
(* strings.Contains, strings.LastIndex, strings.TrimSuffix and the         *)
(* ordering of sort.Strings are computed character by character.           *)
(* Timestamps, Elapsed and Duration are integers counted in ticks of one   *)
(* fixed unit; timestamp 0 is the zero time.Time.  The timestamps used are *)
(* so close together that time.Time.Sub does not saturate.  A float64 sum  *)
(* is rounded to a significand of MantissaBits bits, ties to even, as      *)
(* IEEE 754 addition is; the significand is narrower than the 53 bits of   *)
(* float64 so that sums of a few ticks reach the rounding.                 *)
(***************************************************************************)
EXTENDS Integers, Sequences, FiniteSets, TLC

\* Largest number of input lines read before the input ends.
MaxEvents == 3

\* Bits of the significand that a float64 sum keeps in the model.
MantissaBits == 3

----------------------------------------------------------------------------
(* Strings *)

\* s[i:j] of Go (0-based, j exclusive)
Slice(s, i, j) == SubSeq(s, i + 1, j)

\* strings.Contains(s, c) for a one-character c
Contains(s, c) == \E i \in 1..Len(s) : s[i] = c

\* strings.Contains(s, substr) for a substr of any length
ContainsStr(s, substr) ==
    \E i \in 0..(Len(s) - Len(substr)) :
        SubSeq(s, i + 1, i + Len(substr)) = substr

\* strings.LastIndex(s, c) for a one-character c: 0-based, -1 when absent
LastIndex(s, c) ==
    IF Contains(s, c)
    THEN (CHOOSE i \in 1..Len(s) :
              s[i] = c /\ \A j \in (i + 1)..Len(s) : s[j] # c) - 1
    ELSE -1

\* strings.HasSuffix(s, suffix)
HasSuffix(s, suffix) ==
    /\ Len(s) >= Len(suffix)
    /\ Slice(s, Len(s) - Len(suffix), Len(s)) = suffix

\* removes every trailing occurrence of suffix, as strings.TrimRight would
RECURSIVE TrimSuffixRepeated(_, _)
TrimSuffixRepeated(s, suffix) ==
    IF Len(suffix) > 0 /\ HasSuffix(s, suffix)
    THEN TrimSuffixRepeated(Slice(s, 0, Len(s) - Len(suffix)), suffix)
    ELSE s

\* strings.TrimSuffix(s, suffix)
TrimSuffix(s, suffix) ==
    IF HasSuffix(s, suffix) THEN Slice(s, 0, Len(s) - Len(suffix)) ELSE s

\* the byte value of the characters that occur in the test names
ByteOf(c) ==
    CASE c = "/" -> 47
      [] c = "A" -> 65
      [] c = "B" -> 66
      [] c = "C" -> 67
      [] OTHER   -> 0

\* orders strings by length first and bytewise among equal lengths
StrLessShortLex(a, b) ==
    \/ Len(a) < Len(b)
    \/ /\ Len(a) = Len(b)
       /\ \E i \in 1..Len(a) :
              /\ ByteOf(a[i]) < ByteOf(b[i])
              /\ \A j \in 1..(i - 1) : a[j] = b[j]

\* a < b for Go strings: bytewise lexicographic order
RECURSIVE StrLess(_, _)
StrLess(a, b) ==
    IF Len(b) = 0 THEN FALSE
    ELSE IF Len(a) = 0 THEN TRUE
    ELSE IF ByteOf(Head(a)) # ByteOf(Head(b))
         THEN ByteOf(Head(a)) < ByteOf(Head(b))
         ELSE StrLess(Tail(a), Tail(b))

\* sort.Strings applied to a slice holding the strings of S, each once
RECURSIVE SortStrings(_)
SortStrings(S) ==
    IF S = {} THEN <<>>
    ELSE LET m == CHOOSE x \in S : \A y \in S \ {x} : StrLess(x, y)
         IN  <<m>> \o SortStrings(S \ {m})

NL == <<"\n">>

----------------------------------------------------------------------------
(* Events and input lines *)

\* TestEvent
Event(time, action, test, output, elapsed) ==
    [Time |-> time, Action |-> action, Test |-> test, Package |-> "pkg",
     Output |-> output, Elapsed |-> elapsed]

\* an input line that json.Unmarshal decodes into ev
JsonLine(ev) == [ok |-> TRUE, empty |-> FALSE, event |-> ev]

\* an input line that json.Unmarshal rejects: text that is not a JSON object
MalformedLine ==
    [ok |-> FALSE, empty |-> FALSE, event |-> Event(0, "", <<>>, <<>>, 0)]

\* the empty input line, which json.Unmarshal rejects as well ("unexpected
\* end of JSON input")
EmptyLine ==
    [ok |-> FALSE, empty |-> TRUE, event |-> Event(0, "", <<>>, <<>>, 0)]

\* the lines on which json.Unmarshal returns an error
UndecodableLines == {MalformedLine, EmptyLine}

\* fmt.Errorf("error unmarshalling JSON: %v", err): the text of the decoder's
\* error for the line
UnmarshalError(line) ==
    IF line.empty
    THEN "error unmarshalling JSON: unexpected end of JSON input"
    ELSE "error unmarshalling JSON: invalid character"

NameA   == <<"A">>
NameB   == <<"B">>
NameAB  == <<"A", "/", "B">>
NameAC  == <<"A", "/", "C">>
NameABC == <<"A", "/", "B", "/", "C">>

\* time.Time.IsZero
IsZero(t) == t = 0

----------------------------------------------------------------------------
(* State *)

VARIABLES
    pc,             \* "scan": in the loop; "done": returned a model; "error"
    consumed,       \* the lines scanner.Scan has delivered so far, in order
    results,        \* map[string]*TestResult
    testOutputMap,  \* map[string][]string
    testStartTime,  \* map[string]time.Time
    reportData,     \* the returned *ReportData: <<>> is nil, <<r>> points to r
    err,            \* the returned error: "" is nil
    scannerErr,     \* scanner.Err(): "" is nil
    markdown        \* what generateMarkdownReport returned: <<>> before the call

vars == <<pc, consumed, results, testOutputMap, testStartTime, reportData, err,
          scannerErr, markdown>>

\* m[k] = v
Put(m, k, v) == [x \in DOMAIN m \cup {k} |-> IF x = k THEN v ELSE m[x]]

\* testStartTime[name]: the zero time.Time for a missing key
StartTimeOf(m, name) == IF name \in DOMAIN m THEN m[name] ELSE 0

Init ==
    /\ pc = "scan"
    /\ consumed = <<>>
    /\ results = <<>>
    /\ testOutputMap = <<>>
    /\ testStartTime = <<>>
    /\ reportData = <<>>
    /\ err = ""
    /\ scannerErr = ""
    /\ markdown = <<>>

----------------------------------------------------------------------------
(* The loop body *)

IsLifecycle(action) == action \in {"run", "pass", "fail", "skip"}

\* &TestResult{Name, Package, Status: "UNKNOWN", Duration: 0, Output: {}, IsSubTest}
NewResult(name, package) ==
    [Name |-> name, Package |-> package, Status |-> "UNKNOWN", Duration |-> 0,
     Output |-> <<>>, ParentTest |-> <<>>, SubTests |-> <<>>,
     IsSubTest |-> Contains(name, "/")]

\* cuts the name at its first "/", as strings.Index would
ParentNameAtFirstSlash(name) ==
    Slice(name, 0, (CHOOSE i \in 1..Len(name) :
                        name[i] = "/" /\ \A j \in 1..(i - 1) : name[j] # "/") - 1)

\* testFullName[:strings.LastIndex(testFullName, "/")]
ParentName(name) == Slice(name, 0, LastIndex(name, "/"))

\* records a subtest in its parent's SubTests on any event of the subtest,
\* also on one that does not create the subtest's entry
CreateEntriesLinksEarly(res, ev) ==
    LET name == ev.Test IN
    IF name \in DOMAIN res THEN res
    ELSE IF ~IsLifecycle(ev.Action)
    THEN IF Contains(name, "/") /\ ParentName(name) \in DOMAIN res
         THEN [res EXCEPT ![ParentName(name)].SubTests = Append(@, name)]
         ELSE res
    ELSE LET r1 == Put(res, name, NewResult(name, ev.Package)) IN
         IF ~r1[name].IsSubTest THEN r1
         ELSE LET parentName == ParentName(name)
                  r2 == [r1 EXCEPT ![name].ParentTest = parentName]
                  r3 == IF parentName \in DOMAIN r2 THEN r2
                        ELSE Put(r2, parentName, NewResult(parentName, ev.Package))
              IN  [r3 EXCEPT ![parentName].SubTests = Append(@, name)]

\* creates the entry anew when the first event of a name arrives after the
\* name got a placeholder entry
CreateEntriesAnew(res, ev) ==
    LET name == ev.Test IN
    IF ~IsLifecycle(ev.Action) THEN res
    ELSE IF name \in DOMAIN res /\ res[name].Status # "UNKNOWN" THEN res
    ELSE LET r1 == Put(res, name, NewResult(name, ev.Package)) IN
         IF ~r1[name].IsSubTest THEN r1
         ELSE LET parentName == ParentName(name)
                  r2 == [r1 EXCEPT ![name].ParentTest = parentName]
                  r3 == IF parentName \in DOMAIN r2 THEN r2
                        ELSE Put(r2, parentName, NewResult(parentName, ev.Package))
              IN  [r3 EXCEPT ![parentName].SubTests = Append(@, name)]

\* links a subtest to its parent only when the parent already has an entry
CreateEntriesNoPlaceholder(res, ev) ==
    LET name == ev.Test IN
    IF name \in DOMAIN res \/ ~IsLifecycle(ev.Action) THEN res
    ELSE LET r1 == Put(res, name, NewResult(name, ev.Package)) IN
         IF ~r1[name].IsSubTest THEN r1
         ELSE LET parentName == ParentName(name)
                  r2 == [r1 EXCEPT ![name].ParentTest = parentName]
              IN  IF parentName \in DOMAIN r2
                  THEN [r2 EXCEPT ![parentName].SubTests = Append(@, name)]
                  ELSE r2

\* creates the entry on any event for a name, an output event included
CreateEntriesOnAnyEvent(res, ev) ==
    LET name == ev.Test IN
    IF name \in DOMAIN res THEN res
    ELSE LET r1 == Put(res, name, NewResult(name, ev.Package)) IN
         IF ~r1[name].IsSubTest THEN r1
         ELSE LET parentName == ParentName(name)
                  r2 == [r1 EXCEPT ![name].ParentTest = parentName]
                  r3 == IF parentName \in DOMAIN r2 THEN r2
                        ELSE Put(r2, parentName, NewResult(parentName, ev.Package))
              IN  [r3 EXCEPT ![parentName].SubTests = Append(@, name)]

\* the entry-creating block at the head of the loop body
CreateEntries(res, ev) ==
    LET name == ev.Test IN
    IF name \in DOMAIN res \/ ~IsLifecycle(ev.Action) THEN res
    ELSE LET r1 == Put(res, name, NewResult(name, ev.Package)) IN
         IF ~r1[name].IsSubTest THEN r1
         ELSE LET parentName == ParentName(name)
                  r2 == [r1 EXCEPT ![name].ParentTest = parentName]
                  r3 == IF parentName \in DOMAIN r2 THEN r2
                        ELSE Put(r2, parentName, NewResult(parentName, ev.Package))
              IN  [r3 EXCEPT ![parentName].SubTests = Append(@, name)]

\* prefers the recorded start time to the event's Elapsed
ResolveDurationStartFirst(old, start, ev) ==
    IF ~IsZero(start) THEN ev.Time - start
    ELSE IF ev.Elapsed > 0 THEN ev.Elapsed
    ELSE old

\* resets the duration when neither Elapsed nor a start time gives one
ResolveDurationOrZero(old, start, ev) ==
    IF ev.Elapsed > 0 THEN ev.Elapsed
    ELSE IF ~IsZero(start) THEN ev.Time - start
    ELSE 0

\* the if / else-if chain of case "pass" and case "fail": the duration the
\* entry has after the event, old being the duration it had before
ResolveDuration(old, start, ev) ==
    IF ev.Elapsed > 0 THEN ev.Elapsed
    ELSE IF ~IsZero(start) THEN ev.Time - start
    ELSE old

\* resolves a duration on a skip event as on a pass or fail event
ApplyStatusSkipResolves(res, starts, ev) ==
    LET name == ev.Test IN
    IF ev.Action \in {"pass", "fail", "skip"}
    THEN [res EXCEPT ![name].Status =
                         CASE ev.Action = "pass" -> "PASS"
                           [] ev.Action = "fail" -> "FAIL"
                           [] ev.Action = "skip" -> "SKIP",
                     ![name].Duration =
                         ResolveDuration(@, StartTimeOf(starts, name), ev)]
    ELSE res

\* sets a status only while the entry is still UNKNOWN
ApplyStatusFirstWins(res, starts, ev) ==
    LET name == ev.Test IN
    IF ev.Action \in {"pass", "fail", "skip"} /\ res[name].Status = "UNKNOWN"
    THEN [res EXCEPT ![name].Status =
                         CASE ev.Action = "pass" -> "PASS"
                           [] ev.Action = "fail" -> "FAIL"
                           [] ev.Action = "skip" -> "SKIP",
                     ![name].Duration =
                         IF ev.Action = "skip" THEN @
                         ELSE ResolveDuration(@, StartTimeOf(starts, name), ev)]
    ELSE res

\* case "pass", case "fail", case "skip" of the switch
ApplyStatus(res, starts, ev) ==
    LET name == ev.Test IN
    CASE ev.Action = "pass" ->
           [res EXCEPT ![name].Status = "PASS",
                       ![name].Duration =
                           ResolveDuration(@, StartTimeOf(starts, name), ev)]
      [] ev.Action = "fail" ->
           [res EXCEPT ![name].Status = "FAIL",
                       ![name].Duration =
                           ResolveDuration(@, StartTimeOf(starts, name), ev)]
      [] ev.Action = "skip" ->
           [res EXCEPT ![name].Status = "SKIP"]
      [] OTHER -> res

\* records a start time only for a name that has none yet
ApplyRunKeepsFirst(starts, ev) ==
    IF ev.Action = "run" /\ ev.Test \notin DOMAIN starts
    THEN Put(starts, ev.Test, ev.Time)
    ELSE starts

\* case "run" of the switch
ApplyRun(starts, ev) ==
    IF ev.Action = "run" THEN Put(starts, ev.Test, ev.Time) ELSE starts

\* case "output" of the switch
ApplyOutput(outs, ev) ==
    IF ev.Action # "output" THEN outs
    ELSE LET name   == ev.Test
             o1     == IF name \in DOMAIN outs THEN outs ELSE Put(outs, name, <<>>)
             output == TrimSuffix(ev.Output, NL)
         IN  IF output # <<>> THEN [o1 EXCEPT ![name] = Append(@, output)]
             ELSE o1

\* handles an event without a test name as an event of the test named ""
ScanEventKeepsUnnamed(Events) ==
    /\ pc = "scan"
    /\ Len(consumed) < MaxEvents
    /\ \E ev \in Events :
         /\ consumed' = Append(consumed, JsonLine(ev))
         /\ results' = ApplyStatus(CreateEntries(results, ev), testStartTime, ev)
         /\ testStartTime' = ApplyRun(testStartTime, ev)
         /\ testOutputMap' = ApplyOutput(testOutputMap, ev)
    /\ UNCHANGED <<pc, reportData, err, scannerErr, markdown>>

\* one iteration of the loop on a line that decodes
ScanEvent(Events) ==
    /\ pc = "scan"
    /\ Len(consumed) < MaxEvents
    /\ \E ev \in Events :
         /\ consumed' = Append(consumed, JsonLine(ev))
         /\ IF ev.Test = <<>>
            THEN UNCHANGED <<results, testOutputMap, testStartTime>>
            ELSE /\ results' = ApplyStatus(CreateEntries(results, ev),
                                           testStartTime, ev)
                 /\ testStartTime' = ApplyRun(testStartTime, ev)
                 /\ testOutputMap' = ApplyOutput(testOutputMap, ev)
    /\ UNCHANGED <<pc, reportData, err, scannerErr, markdown>>

\* skips a line that json.Unmarshal rejects and goes on with the next line
ScanMalformedSkipsLine ==
    /\ pc = "scan"
    /\ Len(consumed) < MaxEvents
    /\ \E line \in UndecodableLines : consumed' = Append(consumed, line)
    /\ UNCHANGED <<pc, reportData, err, results, testOutputMap, testStartTime,
                   scannerErr, markdown>>

\* one iteration of the loop on a line that json.Unmarshal rejects
ScanMalformed ==
    /\ pc = "scan"
    /\ Len(consumed) < MaxEvents
    /\ \E line \in UndecodableLines :
         /\ consumed' = Append(consumed, line)
         /\ err' = UnmarshalError(line)
    /\ pc' = "error"
    /\ reportData' = <<>>
    /\ UNCHANGED <<results, testOutputMap, testStartTime, scannerErr, markdown>>

----------------------------------------------------------------------------
(* After the loop *)

\* "Add collected output to each test"
MergeOutput(res, outs) ==
    [n \in DOMAIN res |->
        IF n \in DOMAIN outs THEN [res[n] EXCEPT !.Output = outs[n]] ELSE res[n]]

\* counts subtests as well
IsCountedAll(r) == TRUE

\* the entries the summary loop counts
IsCounted(r) == ~r.IsSubTest

RECURSIVE Pow2(_)
Pow2(n) == IF n = 0 THEN 1 ELSE 2 * Pow2(n - 1)

\* the spacing of the floating-point numbers around magnitude m: the least
\* power of two q, from q on, with m < 2^MantissaBits * q
RECURSIVE Quantum(_, _)
Quantum(m, q) == IF m < Pow2(MantissaBits) * q THEN q ELSE Quantum(m, 2 * q)

\* the floating-point number nearest to x, ties to the even significand
RoundToFloat(x) ==
    LET m  == IF x < 0 THEN -x ELSE x
        q  == Quantum(m, 1)
        lo == (m \div q) * q
        r  == m - lo
        rm == IF 2 * r < q THEN lo
              ELSE IF 2 * r > q THEN lo + q
              ELSE IF (lo \div q) % 2 = 0 THEN lo ELSE lo + q
    IN  IF x < 0 THEN -rm ELSE rm

\* a + b of float64
FloatAdd(a, b) == RoundToFloat(a + b)

\* TotalDuration after the summary loop has visited order[1..i]
RECURSIVE SumDuration(_, _, _)
SumDuration(res, order, i) ==
    IF i = 0 THEN 0
    ELSE LET r == res[order[i]]
             before == SumDuration(res, order, i - 1)
         IN  IF IsCounted(r) THEN FloatAdd(before, r.Duration) ELSE before

\* the sequences that hold each element of S once
Orders(S) ==
    {o \in [1..Cardinality(S) -> S] : \A n \in S : \E i \in DOMAIN o : o[i] = n}

\* the orders in which "for name, result := range results" may visit the
\* entries.  The loop does nothing for an entry it does not count, so those
\* are put last, in one order.
MapOrders(res) ==
    LET counted == {n \in DOMAIN res : IsCounted(res[n])}
        others  == CHOOSE o \in Orders(DOMAIN res \ counted) : TRUE
    IN  {o \o others : o \in Orders(counted)}

\* counts in TotalTests only the entries that reached PASS, FAIL or SKIP
SummarizeResolvedOnly(res, order) ==
    LET roots == {n \in DOMAIN res : IsCounted(res[n])} IN
    [TotalTests      |-> Cardinality({n \in roots : res[n].Status # "UNKNOWN"}),
     PassedTests     |-> Cardinality({n \in roots : res[n].Status = "PASS"}),
     FailedTests     |-> Cardinality({n \in roots : res[n].Status = "FAIL"}),
     SkippedTests    |-> Cardinality({n \in roots : res[n].Status = "SKIP"}),
     TotalDuration   |-> SumDuration(res, order, Len(order)),
     Results         |-> res,
     SortedTestNames |-> SortStrings(roots)]

\* the summary loop, visiting the entries in the given order, and the sort.
\* The counters and the sorted slice do not depend on the order; the
\* float64 sum TotalDuration is accumulated in it.
Summarize(res, order) ==
    LET roots == {n \in DOMAIN res : IsCounted(res[n])} IN
    [TotalTests      |-> Cardinality(roots),
     PassedTests     |-> Cardinality({n \in roots : res[n].Status = "PASS"}),
     FailedTests     |-> Cardinality({n \in roots : res[n].Status = "FAIL"}),
     SkippedTests    |-> Cardinality({n \in roots : res[n].Status = "SKIP"}),
     TotalDuration   |-> SumDuration(res, order, Len(order)),
     Results         |-> res,
     SortedTestNames |-> SortStrings(roots)]

\* scanner.Scan returns false at the end of the input and scanner.Err is nil
Finish ==
    /\ pc = "scan"
    /\ pc' = "done"
    /\ results' = MergeOutput(results, testOutputMap)
    /\ \E order \in MapOrders(results') :
         reportData' = <<Summarize(results', order)>>
    /\ err' = ""
    /\ UNCHANGED <<consumed, testOutputMap, testStartTime, scannerErr, markdown>>

----------------------------------------------------------------------------
(* Inputs *)

TreeNames == {NameA, NameB, NameAB, NameAC, NameABC}

\* events of a run with nested tests; a pass carries Elapsed, a fail does not
TreeEvents ==
    {Event(1, "run", n, <<>>, 0) : n \in TreeNames}
    \cup {Event(2, "pass", n, <<>>, 2) : n \in TreeNames}
    \cup {Event(2, "fail", n, <<>>, 0) : n \in TreeNames}
    \cup {Event(2, "skip", n, <<>>, 0) : n \in TreeNames}
    \cup {Event(1, "run", <<>>, <<>>, 0),
          Event(1, "output", NameAB, <<"x", "\n">>, 0)}

ScanTree == ScanEvent(TreeEvents)

Next == ScanTree \/ ScanMalformed \/ Finish

Spec == Init /\ [][Next]_vars

\* events of one test with varying timestamps and Elapsed values: a run
\* without a timestamp (0), a terminal event stamped before the run, a
\* negative Elapsed; and a run of a second test
TimeEvents ==
    {Event(t, "run", NameA, <<>>, 0) : t \in {0, 1, 4}}
    \cup {Event(t, a, NameA, <<>>, e) :
              t \in {2, 3}, a \in {"pass", "fail"}, e \in {-1, 0, 3}}
    \cup {Event(2, "skip", NameA, <<>>, 0),
          Event(4, "run", NameB, <<>>, 0),
          Event(2, "pass", <<>>, <<>>, 3)}

ScanTimed == ScanEvent(TimeEvents)

NextTime == ScanTimed \/ ScanMalformed \/ Finish

SpecTime == Init /\ [][NextTime]_vars

\* output events around the lifecycle events of a test and its subtest,
\* output for a name that never runs and for the package, and the actions
\* the switch has no case for
OutEvents ==
    {Event(1, "run", NameA, <<>>, 0),
     Event(2, "pass", NameA, <<>>, 2),
     Event(1, "run", NameAB, <<>>, 0)}
    \cup {Event(1, "output", NameA, o, 0) :
              o \in {<<>>, NL, <<"x">>, <<"x", "\n">>, <<"y", "\n", "\n">>}}
    \cup {Event(1, "output", NameAB, o, 0) : o \in {NL, <<"z", "\n">>}}
    \cup {Event(1, "output", NameB, <<"x", "\n">>, 0),
          Event(1, "output", <<>>, <<"x", "\n">>, 0)}
    \cup {Event(1, a, NameA, <<>>, 0) : a \in {"pause", "cont", "bench"}}

ScanOutput == ScanEvent(OutEvents)

NextOut == ScanOutput \/ ScanMalformed \/ Finish

SpecOut == Init /\ [][NextOut]_vars

\* ------------------------------------------------------------------------
\* The errors scanner.Err() reports: a line longer than the scanner's buffer
\* (bufio.ErrTooLong) and a failure of the underlying reader.
ScannerErrors == {"bufio.Scanner: token too long", "unexpected EOF"}

\* fmt.Errorf("error reading input: %v", err)
ReadError(e) == "error reading input: " \o e

\* takes the end of the scan with scanner.Err() set for the normal end of
\* the input
ScanFailsIgnored ==
    /\ pc = "scan"
    /\ \E e \in ScannerErrors : scannerErr' = e
    /\ pc' = "done"
    /\ results' = MergeOutput(results, testOutputMap)
    /\ \E order \in MapOrders(results') :
         reportData' = <<Summarize(results', order)>>
    /\ err' = ""
    /\ UNCHANGED <<consumed, testOutputMap, testStartTime, markdown>>

\* scanner.Scan returns false because reading failed or the next line is too
\* long: the line is not delivered and scanner.Err() is not nil
ScanFails ==
    /\ pc = "scan"
    /\ \E e \in ScannerErrors :
         /\ scannerErr' = e
         /\ err' = ReadError(e)
    /\ pc' = "error"
    /\ reportData' = <<>>
    /\ UNCHANGED <<consumed, results, testOutputMap, testStartTime, markdown>>

\* The events of a test with one subtest, read from an input that can fail.
ErrEvents ==
    {Event(1, "run", NameA, <<>>, 0),
     Event(1, "run", NameAB, <<>>, 0),
     Event(2, "pass", NameAB, <<>>, 1),
     Event(2, "fail", NameA, <<>>, 1),
     Event(2, "output", NameA, <<"x", "\n">>, 0)}

ScanReadable == ScanEvent(ErrEvents)

NextErr == ScanReadable \/ ScanMalformed \/ ScanFails \/ Finish

SpecErr == Init /\ [][NextErr]_vars

\* ------------------------------------------------------------------------
\* Top-level tests whose names are prefixes of each other or differ in
\* length, and one subtest.
NameAA == <<"A", "A">>
NameBA == <<"B", "A">>
NameC  == <<"C">>

SortNames == {NameA, NameB, NameC, NameAA, NameBA, NameAB}

SortEvents ==
    {Event(1, "run", n, <<>>, 0) : n \in SortNames}
    \cup {Event(2, "pass", NameB, <<>>, 1)}

ScanSortable == ScanEvent(SortEvents)

NextSort == ScanSortable \/ ScanMalformed \/ Finish

SpecSort == Init /\ [][NextSort]_vars

\* ------------------------------------------------------------------------
\* Three top-level tests whose durations differ by the width of the
\* significand: the float64 sum of the three depends on the order of the
\* additions, as that of the Elapsed values 0.1, 0.2 and 0.3 does.
SumEvents ==
    {Event(2, "pass", NameA, <<>>, 1),
     Event(2, "pass", NameB, <<>>, 1),
     Event(2, "pass", NameC, <<>>, Pow2(MantissaBits)),
     Event(1, "run", NameAB, <<>>, 0),
     Event(2, "skip", NameB, <<>>, 0)}

ScanSummable == ScanEvent(SumEvents)

NextSum == ScanSummable \/ ScanMalformed \/ Finish

SpecSum == Init /\ [][NextSum]_vars

\* ------------------------------------------------------------------------
\* generateMarkdownReport.

\* shows SKIPPED as soon as one test was skipped
StatusBadgeSkippedIfAny(data) ==
    IF data.FailedTests > 0 THEN "FAILED"
    ELSE IF data.SkippedTests > 0 THEN "SKIPPED"
    ELSE "PASSED"

\* the word in the badge of the "Test Status" section
StatusBadge(data) ==
    IF data.FailedTests > 0 THEN "FAILED"
    ELSE IF data.SkippedTests = data.TotalTests THEN "SKIPPED"
    ELSE "PASSED"

\* sort.Strings(result.SubTests): SubTests holds each name once
SortSlice(q) == SortStrings({q[i] : i \in DOMAIN q})

\* the entries whose rows the "Test Results" loop writes: those named in
\* SortedTestNames that are not subtests
TableNames(data) ==
    {n \in {data.SortedTestNames[i] : i \in DOMAIN data.SortedTestNames} :
        ~data.Results[n].IsSubTest}

\* Results after the "Test Results" loop: the SubTests slice of every entry
\* that has a row and subtests has been sorted in place
SortSubTests(data) ==
    [n \in DOMAIN data.Results |->
        IF n \in TableNames(data) /\ Len(data.Results[n].SubTests) > 0
        THEN [data.Results[n] EXCEPT !.SubTests = SortSlice(@)]
        ELSE data.Results[n]]

\* the rows of the "Test Results" table: one per entry of TableNames in the
\* order of SortedTestNames, followed by the rows of the names in its
\* SubTests slice
TableRows(data) ==
    [i \in DOMAIN data.SortedTestNames |->
        LET r == data.Results[data.SortedTestNames[i]] IN
        [Test     |-> r.Name,
         Status   |-> r.Status,
         Duration |-> r.Duration,
         SubTests |-> [j \in DOMAIN r.SubTests |->
                          LET sub == data.Results[SortSlice(r.SubTests)[j]] IN
                          [Test     |-> SortSlice(r.SubTests)[j],
                           Status   |-> sub.Status,
                           Duration |-> sub.Duration]]]]

\* the substrings that make an output line an error line
PatternFAIL ==
    <<"F", "A", "I", "L">>

PatternError ==
    <<"E", "r", "r", "o", "r">>

PatternPanic ==
    <<"p", "a", "n", "i", "c", ":">>

PatternDashFAIL ==
    <<"-", "-", "-", " ", "F", "A", "I", "L">>

\* the test on a line of Output in the "Failed Tests Details" section
IsErrorLine(line) ==
    \/ ContainsStr(line, PatternFAIL)
    \/ ContainsStr(line, PatternError)
    \/ ContainsStr(line, PatternPanic)
    \/ ContainsStr(line, PatternDashFAIL)

\* const maxOutputLines for the failed test itself and for its subtests
MaxOutputLines == 20
MaxSubTestOutputLines == 15

\* the code block written for a failed test: the error lines of its Output,
\* the last maxOutputLines of them when there are more
ErrorLines(output, maxOutputLines) ==
    LET errorLines == SelectSeq(output, IsErrorLine) IN
    IF Len(errorLines) > maxOutputLines
    THEN SubSeq(errorLines, Len(errorLines) - maxOutputLines + 1, Len(errorLines))
    ELSE errorLines

\* failedSubtests: the names in result.SubTests whose entry has status FAIL
FailedSubtests(data, name) ==
    SelectSeq(data.Results[name].SubTests,
              LAMBDA sub : data.Results[sub].Status = "FAIL")

\* testFailed for an entry of SortedTestNames
TestFailed(data, name) ==
    data.Results[name].Status = "FAIL" \/ Len(FailedSubtests(data, name)) > 0

\* the "### name" blocks of the "Failed Tests Details" section, on the model
\* as the "Test Results" loop has left it.  The definition at main.go 458
\* limits the lines of a block; the one at main.go 1034 writes them all.
FailedDetails(data, limited) ==
    LET failed == SelectSeq(data.SortedTestNames,
                            LAMBDA name : TestFailed(data, name))
    IN  [i \in DOMAIN failed |->
            LET result == data.Results[failed[i]]
                subs   == FailedSubtests(data, failed[i])
            IN  [Test     |-> failed[i],
                 Lines    |-> IF result.Status = "FAIL"
                              THEN ErrorLines(result.Output,
                                              IF limited THEN MaxOutputLines
                                              ELSE Len(result.Output))
                              ELSE <<>>,
                 SubTests |-> [j \in DOMAIN subs |->
                                 LET output == data.Results[subs[j]].Output IN
                                 [Test  |-> subs[j],
                                  Lines |-> ErrorLines(output,
                                               IF limited THEN MaxSubTestOutputLines
                                               ELSE Len(output))]]]]

\* the returned text, as the parts of it the sections are made of
Markdown(data, limited) ==
    LET sorted == [data EXCEPT !.Results = SortSubTests(data)] IN
    [TotalTests       |-> data.TotalTests,
     Badge            |-> StatusBadge(data),
     Rows             |-> TableRows(data),
     HasFailedDetails |-> data.FailedTests > 0,
     Details          |-> IF data.FailedTests > 0
                          THEN FailedDetails(sorted, limited) ELSE <<>>]

\* generateMarkdownReport(data), as defined at main.go 458, on the model
\* processTestEvents returned.  data.Results holds pointers to the entries,
\* so the sort is a change of the model itself.
Render ==
    /\ pc = "done"
    /\ pc' = "rendered"
    /\ markdown' = <<Markdown(reportData[1], TRUE)>>
    /\ results' = SortSubTests(reportData[1])
    /\ reportData' = <<[reportData[1] EXCEPT !.Results = SortSubTests(reportData[1])]>>
    /\ UNCHANGED <<consumed, testOutputMap, testStartTime, err, scannerErr>>

\* generateMarkdownReport(data), as defined at main.go 1034 and in the
\* action definition: after the sections above it reads durations[0] of
\* the slice built from data.Results without testing its length, which is a
\* run-time panic (index out of range) when Results is empty.
RenderUnguarded ==
    /\ pc = "done"
    /\ IF DOMAIN reportData[1].Results = {}
       THEN /\ pc' = "panic"
            /\ UNCHANGED <<markdown, results, reportData>>
       ELSE /\ pc' = "rendered"
            /\ markdown' = <<Markdown(reportData[1], FALSE)>>
            /\ results' = SortSubTests(reportData[1])
            /\ reportData' =
                   <<[reportData[1] EXCEPT !.Results = SortSubTests(reportData[1])]>>
    /\ UNCHANGED <<consumed, testOutputMap, testStartTime, err, scannerErr>>

\* Two top-level tests that pass, fail or are skipped, and two subtests of
\* the first discovered in either order.
RenderEvents ==
    {Event(1, "run", NameAC, <<>>, 0),
     Event(1, "run", NameAB, <<>>, 0),
     Event(2, "pass", NameA, <<>>, 1),
     Event(2, "skip", NameA, <<>>, 0),
     Event(2, "pass", NameB, <<>>, 1),
     Event(2, "skip", NameB, <<>>, 0),
     Event(2, "fail", NameB, <<>>, 1)}

ScanRenderable == ScanEvent(RenderEvents)

NextRender == ScanRenderable \/ ScanMalformed \/ Finish \/ Render

SpecRender == Init /\ [][NextRender]_vars

\* ------------------------------------------------------------------------
\* The output lines of the failing test and of its failing subtest in
\* TestGenerateMarkdownReport, "tests with failures".
FailLine ==
    <<"-", "-", "-", " ", "F", "A", "I", "L", ":", " ", "T", "e", "s", "t",
      "T", "w", "o", " ", "(", "0", ".", "7", "0", "s", ")">>

RootErrorLine ==
    <<" ", " ", " ", " ", "e", "r", "r", "o", "r", "_", "t", "e", "s", "t",
      ".", "g", "o", ":", "1", "2", "3", ":", " ", "u", "n", "e", "x", "p",
      "e", "c", "t", "e", "d", " ", "e", "r", "r", "o", "r">>

SubTestErrorLine ==
    <<" ", " ", " ", " ", "s", "u", "b", "t", "e", "s", "t", "_", "e", "r",
      "r", "o", "r", ".", "g", "o", ":", "4", "5", ":", " ", "f", "a", "i",
      "l", "e", "d", " ", "a", "s", "s", "e", "r", "t", "i", "o", "n">>

\* A failing test with a failing subtest, their output, and a test nested
\* two levels deep; either definition of generateMarkdownReport renders the
\* returned model.
ReportEvents ==
    {Event(2, "fail", NameA, <<>>, 1),
     Event(2, "pass", NameA, <<>>, 1),
     Event(2, "fail", NameAB, <<>>, 1),
     Event(1, "run", NameABC, <<>>, 0),
     Event(1, "output", NameA, FailLine \o NL, 0),
     Event(1, "output", NameA, RootErrorLine \o NL, 0),
     Event(1, "output", NameAB, SubTestErrorLine \o NL, 0)}

ScanReported == ScanEvent(ReportEvents)

NextReport ==
    ScanReported \/ ScanMalformed \/ Finish \/ Render \/ RenderUnguarded

SpecReport == Init /\ [][NextReport]_vars

\* ------------------------------------------------------------------------
\* Skip events that carry an Elapsed and a timestamp, for tests that have
\* or have not been run, passed or failed before.
SkipEvents ==
    {Event(1, "run", NameA, <<>>, 0),
     Event(2, "pass", NameA, <<>>, 3),
     Event(3, "fail", NameA, <<>>, 0),
     Event(1, "run", NameAB, <<>>, 0)}
    \cup {Event(4, "skip", n, <<>>, e) : n \in {NameA, NameAB}, e \in {0, 2}}

ScanSkippable == ScanEvent(SkipEvents)

NextSkip == ScanSkippable \/ ScanMalformed \/ Finish

SpecSkip == Init /\ [][NextSkip]_vars

\* ------------------------------------------------------------------------
\* Events the loop ignores, package-level events of every action and pause,
\* cont and bench events of seen and unseen tests, among events it handles.
IgnoredEvents ==
    {Event(1, a, <<>>, <<"x", "\n">>, 2) :
         a \in {"run", "pass", "fail", "skip", "output"}}
    \cup {Event(1, a, n, <<"x", "\n">>, 2) :
              a \in {"pause", "cont", "bench"}, n \in {NameA, NameAB}}

IgnoreEvents ==
    IgnoredEvents
    \cup {Event(1, "run", NameA, <<>>, 0),
          Event(2, "pass", NameA, <<>>, 1),
          Event(1, "output", NameA, <<"x", "\n">>, 0)}

ScanIgnorable == ScanEvent(IgnoreEvents)

NextIgnore == ScanIgnorable \/ ScanMalformed \/ Finish

SpecIgnore == Init /\ [][NextIgnore]_vars

----------------------------------------------------------------------------
(* History: what the lines consumed so far say, read off the input alone *)

\* the decoded events consumed so far that name a test
NamedEvents ==
    SelectSeq(consumed, LAMBDA l : l.ok /\ l.event.Test # <<>>)

\* positions in NamedEvents of the run/pass/fail/skip events for name n
LifecycleAt(n) ==
    {i \in 1..Len(NamedEvents) :
        NamedEvents[i].event.Test = n /\ IsLifecycle(NamedEvents[i].event.Action)}

\* positions in NamedEvents of the pass/fail/skip events for name n
TerminalAt(n) ==
    {i \in 1..Len(NamedEvents) :
        /\ NamedEvents[i].event.Test = n
        /\ NamedEvents[i].event.Action \in {"pass", "fail", "skip"}}

Min(S) == CHOOSE x \in S : \A y \in S : x <= y
Max(S) == CHOOSE x \in S : \A y \in S : x >= y

\* c is x, then "/", then one segment without "/"
IsDirectChild(c, x) ==
    /\ Len(c) > Len(x)
    /\ SubSeq(c, 1, Len(x)) = x
    /\ c[Len(x) + 1] = "/"
    /\ \A i \in (Len(x) + 2)..Len(c) : c[i] # "/"

\* a name without "/"
IsRootName(n) == \A i \in 1..Len(n) : n[i] # "/"

\* the name without its last "/"-segment
DropLastSegment(n) ==
    SubSeq(n, 1, Max({i \in 1..Len(n) : n[i] = "/"}) - 1)

Returned == reportData[1]

----------------------------------------------------------------------------
(* Claims about the summary counters *)

UnknownRoots ==
    {n \in DOMAIN Returned.Results :
        IsRootName(n) /\ Returned.Results[n].Status = "UNKNOWN"}

\* C1: in the returned model TotalTests = PassedTests + FailedTests +
\* SkippedTests + U, where U is the number of root entries whose status is
\* still UNKNOWN: such an entry counts in TotalTests and in no other counter.
C1_CountersAddUp ==
    pc = "done" =>
        Returned.TotalTests =
            Returned.PassedTests + Returned.FailedTests
            + Returned.SkippedTests + Cardinality(UnknownRoots)

C1_Witness ==
    /\ pc = "done"
    /\ Cardinality(UnknownRoots) = 1
    /\ Returned.PassedTests = 1
    /\ Returned.TotalTests = 2

RootsWith(status) ==
    {n \in DOMAIN Returned.Results :
        IsRootName(n) /\ Returned.Results[n].Status = status}

\* C2: the entries counted in the four counters and summed into
\* TotalDuration are exactly the entries whose name has no "/": every root
\* entry counts once, no subtest entry counts.
C2_OnlyRootsCounted ==
    pc = "done" =>
        LET roots == {n \in DOMAIN Returned.Results : IsRootName(n)} IN
        /\ Returned.TotalTests = Cardinality(roots)
        /\ Returned.PassedTests = Cardinality(RootsWith("PASS"))
        /\ Returned.FailedTests = Cardinality(RootsWith("FAIL"))
        /\ Returned.SkippedTests = Cardinality(RootsWith("SKIP"))
        /\ \E order \in Orders(roots) :
               Returned.TotalDuration =
                   SumDuration(Returned.Results, order, Len(order))

\* TestX passes, TestX/SubA passes, TestX/SubB fails
C2_Witness ==
    /\ pc = "done"
    /\ DOMAIN Returned.Results = {NameA, NameAB, NameAC}
    /\ Returned.Results[NameA].Status = "PASS"
    /\ Returned.Results[NameAB].Status = "PASS"
    /\ Returned.Results[NameAB].Duration > 0
    /\ Returned.Results[NameAC].Status = "FAIL"
    /\ Returned.TotalTests = 1
    /\ Returned.PassedTests = 1
    /\ Returned.FailedTests = 0
    /\ Returned.TotalDuration = Returned.Results[NameA].Duration

----------------------------------------------------------------------------
(* Claims about the parent/child links *)

\* C3: in the returned model the parent of every entry with IsSubTest set
\* (its name without the last "/"-segment) is an entry too.
C3_ParentExists ==
    pc = "done" =>
        \A n \in DOMAIN Returned.Results :
            Returned.Results[n].IsSubTest =>
                DropLastSegment(n) \in DOMAIN Returned.Results

\* C4: in the returned model the SubTests of every entry X holds each entry
\* that is a direct child of X, each exactly once.
C4_SubTestsAreTheChildren ==
    pc = "done" =>
        \A x \in DOMAIN Returned.Results :
            LET subs == Returned.Results[x].SubTests IN
            /\ {subs[i] : i \in 1..Len(subs)} =
                   {c \in DOMAIN Returned.Results : IsDirectChild(c, x)}
            /\ Len(subs) =
                   Cardinality({c \in DOMAIN Returned.Results : IsDirectChild(c, x)})

\* C5: in every state each name in an entry's SubTests is a direct child of
\* the entry, no name occurs twice, and the names are in the order of their
\* first run/pass/fail/skip event.
C5_SubTestsDirectDistinctOrdered ==
    \A x \in DOMAIN results :
        LET subs == results[x].SubTests IN
        \A i \in 1..Len(subs) :
            /\ IsDirectChild(subs[i], x)
            /\ LifecycleAt(subs[i]) # {}
            /\ \A j \in (i + 1)..Len(subs) :
                   /\ subs[i] # subs[j]
                   /\ LifecycleAt(subs[j]) # {}
                   /\ Min(LifecycleAt(subs[i])) < Min(LifecycleAt(subs[j]))

\* two children discovered in the order A/C, A/B, the reverse of their
\* lexicographic order
C5_Witness ==
    /\ NameA \in DOMAIN results
    /\ results[NameA].SubTests = <<NameAC, NameAB>>

----------------------------------------------------------------------------
(* Claims about the status *)

StatusOf(action) ==
    CASE action = "pass" -> "PASS"
      [] action = "fail" -> "FAIL"
      [] action = "skip" -> "SKIP"

\* C6: a name that received a pass, fail or skip event has the status of the
\* last such event, and no such event makes processing fail.
C6_LastTerminalEventWins ==
    /\ (\A i \in 1..Len(consumed) : consumed[i].ok) => pc # "error" /\ err = ""
    /\ pc # "error" =>
         \A n \in TreeNames :
            TerminalAt(n) # {} =>
               /\ n \in DOMAIN results
               /\ results[n].Status =
                      StatusOf(NamedEvents[Max(TerminalAt(n))].event.Action)
               /\ pc = "done" => Returned.Results[n].Status = results[n].Status

\* a pass followed by a fail for the same name
C6_Witness ==
    /\ pc = "done"
    /\ \E n \in TreeNames :
         /\ Cardinality(TerminalAt(n)) = 2
         /\ NamedEvents[Min(TerminalAt(n))].event.Action = "pass"
         /\ NamedEvents[Max(TerminalAt(n))].event.Action = "fail"
         /\ Returned.Results[n].Status = "FAIL"

----------------------------------------------------------------------------
(* Claims about the duration *)

LastLine == consumed[Len(consumed)]

\* positions in consumed, before the last line, of the run events for name n
RunsBeforeLast(n) ==
    {i \in 1..(Len(consumed) - 1) :
        /\ consumed[i].ok
        /\ consumed[i].event.Test = n
        /\ consumed[i].event.Action = "run"}

\* the last line is a pass or fail event for a named test
AfterPassOrFail ==
    /\ Len(consumed) > 0
    /\ LastLine.ok
    /\ LastLine.event.Test # <<>>
    /\ LastLine.event.Action \in {"pass", "fail"}

\* C7 as claimed: after a pass or fail event, Duration is the event's Elapsed
\* when that is > 0, and otherwise, when a run event was recorded with
\* timestamp t0, the event's timestamp minus t0.
C7_AsClaimed ==
    AfterPassOrFail =>
        LET e == LastLine.event
            n == e.Test
        IN  IF e.Elapsed > 0 THEN results[n].Duration = e.Elapsed
            ELSE RunsBeforeLast(n) # {} =>
                   results[n].Duration =
                       e.Time - consumed[Max(RunsBeforeLast(n))].event.Time

\* C7: after a pass or fail event, Duration is the event's Elapsed when that
\* is > 0, and otherwise, when the latest run event of the name carried a
\* timestamp t0 other than the zero time, the event's timestamp minus t0.
C7_ElapsedThenStartTime ==
    AfterPassOrFail =>
        LET e == LastLine.event
            n == e.Test
        IN  IF e.Elapsed > 0 THEN results[n].Duration = e.Elapsed
            ELSE (/\ RunsBeforeLast(n) # {}
                  /\ consumed[Max(RunsBeforeLast(n))].event.Time # 0) =>
                   results[n].Duration =
                       e.Time - consumed[Max(RunsBeforeLast(n))].event.Time

\* run at 1, pass with Elapsed 3, fail at 2 without Elapsed: 3, then 2 - 1
C7_Witness ==
    /\ Len(consumed) = 3
    /\ \A i \in 1..3 : consumed[i].ok /\ consumed[i].event.Test = NameA
    /\ consumed[1].event.Action = "run" /\ consumed[1].event.Time = 1
    /\ consumed[2].event.Action = "pass" /\ consumed[2].event.Elapsed = 3
    /\ consumed[3].event.Action = "fail" /\ consumed[3].event.Elapsed = 0
    /\ consumed[3].event.Time = 2
    /\ results[NameA].Duration = 1

\* C8 as claimed: after a pass or fail event whose Elapsed is not > 0, for a
\* name with no recorded start time, Duration is 0.
C8_AsClaimed ==
    (/\ AfterPassOrFail
     /\ LastLine.event.Elapsed <= 0
     /\ RunsBeforeLast(LastLine.event.Test) = {}) =>
        results[LastLine.event.Test].Duration = 0

\* the latest run event of name n among lines, if any, carried the zero time
NoStartTime(lines, n) ==
    LET runs == {i \in 1..Len(lines) :
                    /\ lines[i].ok
                    /\ lines[i].event.Test = n
                    /\ lines[i].event.Action = "run"}
    IN  runs = {} \/ lines[Max(runs)].event.Time = 0

C8_Step ==
    LET l == consumed'[Len(consumed')]
        n == l.event.Test
    IN  (/\ Len(consumed') = Len(consumed) + 1
         /\ l.ok
         /\ n # <<>>
         /\ l.event.Action \in {"pass", "fail"}
         /\ l.event.Elapsed <= 0
         /\ NoStartTime(consumed, n)) =>
            results'[n].Duration =
                IF n \in DOMAIN results THEN results[n].Duration ELSE 0

\* C8: a pass or fail event whose Elapsed is not > 0, for a name with no
\* recorded start time, leaves Duration as it was before the event (0 for
\* an entry the event creates).
C8_DurationKept == [][C8_Step]_vars

\* pass with Elapsed 3, then fail without Elapsed and without a run: still 3
C8_Witness ==
    /\ Len(consumed) = 2
    /\ \A i \in 1..2 : consumed[i].ok /\ consumed[i].event.Test = NameA
    /\ consumed[1].event.Action = "pass" /\ consumed[1].event.Elapsed = 3
    /\ consumed[2].event.Action = "fail" /\ consumed[2].event.Elapsed <= 0
    /\ results[NameA].Status = "FAIL"
    /\ results[NameA].Duration = 3

\* C9: every entry's Duration is >= 0 in every state, and so is the
\* TotalDuration of the returned model.
C9_DurationNonNegative ==
    /\ \A n \in DOMAIN results : results[n].Duration >= 0
    /\ pc = "done" => Returned.TotalDuration >= 0

----------------------------------------------------------------------------
(* Claims about the output *)

\* the text without one trailing newline
DropOneNewline(t) ==
    IF Len(t) > 0 /\ t[Len(t)] = "\n" THEN SubSeq(t, 1, Len(t) - 1) ELSE t

\* the output texts for name n among lines, in order, each without one
\* trailing newline, the empty ones left out
RECURSIVE CleanedOutputs(_, _)
CleanedOutputs(lines, n) ==
    IF lines = <<>> THEN <<>>
    ELSE LET l == Head(lines)
             t == DropOneNewline(l.event.Output)
             rest == CleanedOutputs(Tail(lines), n)
         IN  IF /\ l.ok
                /\ l.event.Test = n
                /\ l.event.Action = "output"
                /\ t # <<>>
             THEN <<t>> \o rest
             ELSE rest

\* C10: the Output of every entry of the returned model is the sequence of
\* the texts of all output events for its name, in arrival order, each
\* without one trailing newline and the empty ones left out; output that
\* came before the name's first run/pass/fail/skip event is included.
C10_OutputInArrivalOrder ==
    pc = "done" =>
        \A n \in DOMAIN Returned.Results :
            Returned.Results[n].Output = CleanedOutputs(consumed, n)

\* output "y\n\n" before the run of A, output "x\n" after it
C10_Witness ==
    /\ pc = "done"
    /\ Len(consumed) = 3
    /\ consumed[1].event.Action = "output"
    /\ consumed[1].event.Test = NameA
    /\ consumed[2].event.Action = "run"
    /\ consumed[2].event.Test = NameA
    /\ consumed[3].event.Action = "output"
    /\ consumed[3].event.Test = NameA
    /\ Returned.Results[NameA].Output = <<<<"y", "\n">>, <<"x">>>>

\* ------------------------------------------------------------------------
\* The names that occur in the events of SpecOut.
OutNames == {NameA, NameB, NameAB}

\* some decoded line so far is an event for name n
ReceivesEvents(n) == \E i \in 1..Len(NamedEvents) : NamedEvents[i].event.Test = n

\* n is the parent, by its last "/", of a name with a run, pass, fail or
\* skip event
IsPlaceholderParent(n) ==
    \E c \in OutNames :
        /\ ~IsRootName(c)
        /\ LifecycleAt(c) # {}
        /\ DropLastSegment(c) = n

\* C11 as stated, second clause: in the returned model no name that received
\* events but no run, pass, fail or skip event has an entry.
C11_AsClaimed ==
    pc = "done" =>
        \A n \in OutNames :
            (ReceivesEvents(n) /\ LifecycleAt(n) = {})
                => n \notin DOMAIN Returned.Results

\* C11 (amended): at every point of the scan the names with an entry are
\* exactly the names that have received a run, pass, fail or skip event and
\* the parents of such names; a name that received only output, pause, cont
\* or bench events and is not such a parent has no entry in the returned
\* model, is not in SortedTestNames nor counted in TotalTests, and no error
\* is returned.
C11_EntriesFromLifecycleEvents ==
    /\ DOMAIN results =
           {n \in OutNames : LifecycleAt(n) # {} \/ IsPlaceholderParent(n)}
    /\ pc = "done" =>
           /\ err = ""
           /\ DOMAIN Returned.Results = DOMAIN results
           /\ \A n \in OutNames :
                  (ReceivesEvents(n) /\ LifecycleAt(n) = {}
                                     /\ ~IsPlaceholderParent(n))
                      => /\ n \notin DOMAIN Returned.Results
                         /\ \A i \in DOMAIN Returned.SortedTestNames :
                                Returned.SortedTestNames[i] # n
           /\ Returned.TotalTests =
                  Cardinality({n \in OutNames :
                                  /\ IsRootName(n)
                                  /\ LifecycleAt(n) # {} \/ IsPlaceholderParent(n)})

\* a returned model with an entry, for an input with output for NameB only
C11_Witness ==
    /\ pc = "done"
    /\ ReceivesEvents(NameB)
    /\ NameB \in DOMAIN testOutputMap
    /\ NameB \notin DOMAIN Returned.Results
    /\ Returned.TotalTests = 1

\* ------------------------------------------------------------------------
\* every named event so far is for name c, and there is one
OnlyEventsFor(c) ==
    /\ Len(NamedEvents) > 0
    /\ \A i \in 1..Len(NamedEvents) : NamedEvents[i].event.Test = c

\* the entry the claim describes for the parent p of the subtest c
IsPlaceholderFor(p, c) ==
    /\ p \in DOMAIN Returned.Results
    /\ Returned.Results[p].Name = p
    /\ Returned.Results[p].Status = "UNKNOWN"
    /\ Returned.Results[p].Duration = 0
    /\ Returned.Results[p].IsSubTest = FALSE
    /\ Returned.Results[p].SubTests = <<c>>
    /\ Returned.SortedTestNames = <<p>>
    /\ Returned.TotalTests = 1
    /\ Returned.PassedTests = 0
    /\ Returned.FailedTests = 0
    /\ Returned.SkippedTests = 0

\* C12 as stated: whenever the only named events of the stream are for a
\* subtest P/S of a top-level name P, the returned model has the UNKNOWN
\* entry P with SubTests = [P/S], counted once in TotalTests.
C12_AsClaimed ==
    pc = "done" =>
        \A c \in {NameAB, NameAC} :
            OnlyEventsFor(c) => IsPlaceholderFor(NameA, c)

\* C12 (amended): when the only named events of the stream are for a subtest
\* P/S of a top-level name P and at least one of them is a run, pass, fail or
\* skip event, the returned model has the entry P with Status UNKNOWN,
\* Duration 0, IsSubTest false and SubTests = [P/S]; P is the only name in
\* SortedTestNames and counts 1 toward TotalTests and 0 toward passed,
\* failed and skipped.
C12_PlaceholderParent ==
    pc = "done" =>
        \A c \in {NameAB, NameAC} :
            (OnlyEventsFor(c) /\ LifecycleAt(c) # {})
                => IsPlaceholderFor(NameA, c)

\* a returned model for a stream of three events, all for NameAB, the last of
\* them the pass event
C12_Witness ==
    /\ pc = "done"
    /\ OnlyEventsFor(NameAB)
    /\ Len(NamedEvents) = MaxEvents
    /\ LifecycleAt(NameAB) # {}
    /\ IsPlaceholderFor(NameA, NameAB)
    /\ Returned.Results[NameAB].Status = "PASS"

\* ------------------------------------------------------------------------
\* positions in the input of the lines that fail JSON decoding
UndecodableAt == {i \in 1..Len(consumed) : ~consumed[i].ok}

C14_EmptyLineSkipped ==
    (\E i \in 1..Len(consumed) : consumed[i].empty) =>
        /\ err = ""
        /\ pc \in {"scan", "done"}
        /\ pc = "done" => reportData # <<>>

\* ------------------------------------------------------------------------
\* the errors processTestEvents returns when the first line of the input is
\* the one that fails to decode
FirstLineErrors == {UnmarshalError(line) : line \in UndecodableLines}

\* C15: the returned error identifies the position of the offending line,
\* so the error for an offending line that is not the first line is none of
\* the errors returned for an offending first line.
C15_ErrorNamesPosition ==
    (pc = "error" /\ UndecodableAt # {} /\ Len(consumed) > 1)
        => err \notin FirstLineErrors

\* ------------------------------------------------------------------------
\* C16 as stated: an error is returned only for an input with a line that
\* fails to decode.
C16_AsClaimed == pc = "error" => UndecodableAt # {}

\* C16 (amended): processTestEvents returns an error in exactly two cases: a
\* line fails to decode (error "error unmarshalling JSON: ...") or the line
\* scanner reports an error (error "error reading input: ..."); in both the
\* model is nil.  At the end of an input that was read without a scanner
\* error and in which every line decodes it returns a model and no error.
C16_ErrorCases ==
    /\ pc = "error" <=> (UndecodableAt # {} \/ scannerErr # "")
    /\ pc = "error" => reportData = <<>>
    /\ UndecodableAt # {} =>
           /\ scannerErr = ""
           /\ err = UnmarshalError(consumed[Len(consumed)])
    /\ scannerErr # "" =>
           /\ UndecodableAt = {}
           /\ err = ReadError(scannerErr)
    /\ pc = "done" => (err = "" /\ reportData # <<>>)
    /\ pc = "scan" => (err = "" /\ reportData = <<>>)

\* an error return for an input in which every line read had decoded
C16_Witness ==
    /\ pc = "error"
    /\ err = ReadError("bufio.Scanner: token too long")
    /\ Len(consumed) = MaxEvents
    /\ UndecodableAt = {}
    /\ DOMAIN results # {}

\* ------------------------------------------------------------------------
\* a <= b in the lexicographic order of the bytes: a is a prefix of b, or a
\* has the smaller byte at the first position where they differ
LexLessEq(a, b) ==
    \/ /\ Len(a) <= Len(b)
       /\ \A i \in 1..Len(a) : a[i] = b[i]
    \/ \E i \in 1..Min({Len(a), Len(b)}) :
           /\ ByteOf(a[i]) < ByteOf(b[i])
           /\ \A j \in 1..(i - 1) : a[j] = b[j]

C18_RenderLeavesModel ==
    [][pc' = "rendered" => (reportData' = reportData /\ results' = results)]_vars

\* ------------------------------------------------------------------------
\* C20: the badge of the rendered report is FAILED if FailedTests > 0,
\* otherwise SKIPPED if SkippedTests = TotalTests, otherwise PASSED; so a
\* model whose top-level tests are some passed, some skipped and none failed
\* shows PASSED, and one whose top-level tests are all skipped shows SKIPPED.
C20_StatusBadge ==
    pc = "rendered" =>
        LET badge == markdown[1].Badge
            roots == {n \in DOMAIN Returned.Results : IsRootName(n)}
        IN  /\ Returned.FailedTests > 0 => badge = "FAILED"
            /\ (Returned.FailedTests = 0
                    /\ Returned.SkippedTests = Returned.TotalTests)
                   => badge = "SKIPPED"
            /\ (Returned.FailedTests = 0
                    /\ Returned.SkippedTests # Returned.TotalTests)
                   => badge = "PASSED"
            /\ (RootsWith("FAIL") = {} /\ RootsWith("PASS") # {}
                    /\ RootsWith("SKIP") # {})
                   => badge = "PASSED"
            /\ (roots # {} /\ RootsWith("SKIP") = roots) => badge = "SKIPPED"

\* a rendered report for one passed and one skipped test
C20_Witness ==
    /\ pc = "rendered"
    /\ RootsWith("PASS") = {NameA}
    /\ RootsWith("SKIP") = {NameB}
    /\ RootsWith("FAIL") = {}
    /\ markdown[1].Badge = "PASSED"

\* ------------------------------------------------------------------------
\* C19: the returned model is a function of the input lines alone: it is the
\* model that the summary loop yields for every other order in which the
\* map of entries may be iterated.
C19_SameModelInAnyMapOrder ==
    pc = "done" =>
        \A order \in MapOrders(results) :
            Returned = Summarize(results, order)

\* ------------------------------------------------------------------------
\* C21: the rendered report has the "Failed Tests Details" section exactly
\* when some entry of the model, top-level test or subtest, has status FAIL.
C21_DetailsIffSomeTestFailed ==
    pc = "rendered" =>
        (markdown[1].HasFailedDetails
            <=> \E n \in DOMAIN Returned.Results :
                    Returned.Results[n].Status = "FAIL")

\* ------------------------------------------------------------------------
\* the elements of a sequence
Range(q) == {q[i] : i \in DOMAIN q}

\* the error-message lines that the tests capture
ErrorMessageLines == {RootErrorLine, SubTestErrorLine}

\* C22: for every top-level test with status FAIL the "Failed Tests
\* Details" section has a block that holds each error-message line of the
\* test's output, and under it, for each of its direct subtests with status
\* FAIL, a block that holds each error-message line of the subtest's output.
C22_ErrorMessagesInDetails ==
    pc = "rendered" =>
        \A n \in DOMAIN Returned.Results :
            (IsRootName(n) /\ Returned.Results[n].Status = "FAIL") =>
                \E i \in DOMAIN markdown[1].Details :
                    LET block == markdown[1].Details[i] IN
                    /\ block.Test = n
                    /\ \A line \in ErrorMessageLines :
                           line \in Range(Returned.Results[n].Output)
                               => line \in Range(block.Lines)
                    /\ \A c \in Range(Returned.Results[n].SubTests) :
                           Returned.Results[c].Status = "FAIL" =>
                               \E j \in DOMAIN block.SubTests :
                                   /\ block.SubTests[j].Test = c
                                   /\ \A line \in ErrorMessageLines :
                                          line \in Range(Returned.Results[c].Output)
                                              => line \in Range(block.SubTests[j].Lines)

\* ------------------------------------------------------------------------
\* C23: generateMarkdownReport called on a model without results (TotalTests
\* 0, empty Results, empty SortedTestNames) returns, and the report it
\* returns states 0 total tests.
C23_EmptyModelRenders ==
    (/\ pc \in {"rendered", "panic"}
     /\ DOMAIN Returned.Results = {}
     /\ Returned.SortedTestNames = <<>>
     /\ Returned.TotalTests = 0)
        => /\ pc = "rendered"
           /\ markdown # <<>>
           /\ markdown[1].TotalTests = 0

\* ------------------------------------------------------------------------
\* the rows of the "Test Results" table, the rows of subtests included
AllRows ==
    {[Test     |-> markdown[1].Rows[i].Test,
      Status   |-> markdown[1].Rows[i].Status,
      Duration |-> markdown[1].Rows[i].Duration] : i \in DOMAIN markdown[1].Rows}
    \cup UNION {Range(markdown[1].Rows[i].SubTests) : i \in DOMAIN markdown[1].Rows}

\* C24: every entry of the model, whatever the depth of its name, has a row
\* in the "Test Results" table of the rendered report, with its status and
\* its duration.
C24_EveryTestInTable ==
    pc = "rendered" =>
        \A n \in DOMAIN Returned.Results :
            [Test     |-> n,
             Status   |-> Returned.Results[n].Status,
             Duration |-> Returned.Results[n].Duration] \in AllRows

\* ------------------------------------------------------------------------
\* a step that reads a skip event for a named test
C25_Step ==
    LET l == consumed'[Len(consumed')]
        n == l.event.Test
    IN  (/\ Len(consumed') = Len(consumed) + 1
         /\ l.ok
         /\ n # <<>>
         /\ l.event.Action = "skip") =>
            /\ results'[n].Status = "SKIP"
            /\ results'[n].Duration =
                   IF n \in DOMAIN results THEN results[n].Duration ELSE 0
            /\ (\A i \in 1..Len(consumed) :
                    ~(/\ consumed[i].ok
                      /\ consumed[i].event.Test = n
                      /\ consumed[i].event.Action \in {"pass", "fail"}))
                   => results'[n].Duration = 0
            /\ testStartTime' = testStartTime

\* C25: a skip event for a name sets the entry's Status to SKIP and leaves
\* its Duration as it was before the event, 0 unless an earlier pass or fail
\* event of the name set it, whatever the event's Elapsed and timestamp and
\* whatever start time is recorded.
C25_SkipKeepsDuration == [][C25_Step]_vars

\* run at 1, then skip at 4 with Elapsed 2: SKIP with Duration 0
C25_Witness ==
    /\ Len(consumed) = 2
    /\ \A i \in 1..2 : consumed[i].ok /\ consumed[i].event.Test = NameA
    /\ consumed[1].event.Action = "run" /\ consumed[1].event.Time = 1
    /\ consumed[2].event.Action = "skip" /\ consumed[2].event.Elapsed = 2
    /\ consumed[2].event.Time = 4
    /\ results[NameA].Status = "SKIP"
    /\ results[NameA].Duration = 0

\* ------------------------------------------------------------------------
\* a step that reads an event without a test name, or a pause, cont or bench
\* event
C26_Step ==
    LET l == consumed'[Len(consumed')] IN
    (/\ Len(consumed') = Len(consumed) + 1
     /\ l.ok
     /\ \/ l.event.Test = <<>>
        \/ l.event.Action \in {"pause", "cont", "bench"}) =>
        /\ results' = results
        /\ testOutputMap' = testOutputMap
        /\ testStartTime' = testStartTime
        /\ pc' = "scan"
        /\ err' = ""

\* C26: an event whose test name is empty, whatever its action, and an
\* event whose action is pause, cont or bench leave the aggregation state as
\* it was: no entry is created or changed, no output is buffered, no start
\* time is recorded, and the scan goes on.
C26_IgnoredEventsChangeNothing == [][C26_Step]_vars

\* run A, then a fail event without a test name and a bench event of the
\* unseen A/B with output and Elapsed: the only entry is A, still UNKNOWN
C26_Witness ==
    /\ Len(consumed) = 3
    /\ \A i \in 1..3 : consumed[i].ok
    /\ consumed[1].event.Action = "run"
    /\ consumed[2].event.Action = "fail" /\ consumed[2].event.Test = <<>>
    /\ consumed[3].event.Action = "bench" /\ consumed[3].event.Test = NameAB
    /\ DOMAIN results = {NameA}
    /\ results[NameA].Status = "UNKNOWN"
    /\ testOutputMap = <<>>

\* ------------------------------------------------------------------------
\* C27: in every state every entry has IsSubTest true exactly when its name
\* contains "/", and every entry with IsSubTest true has as ParentTest its
\* name without the last "/"-segment, whether the entry was created from
\* its own event or as the placeholder parent of another.
C27_SubTestFlagAndParent ==
    \A n \in DOMAIN results :
        /\ results[n].IsSubTest <=> ~IsRootName(n)
        /\ results[n].IsSubTest => results[n].ParentTest = DropLastSegment(n)

\* ------------------------------------------------------------------------
\* a step that reads the first run, pass, fail or skip event of a name that
\* already has an entry, which therefore is a placeholder
C28_Step ==
    LET l == consumed'[Len(consumed')]
        e == l.event
        n == e.Test
    IN  (/\ Len(consumed') = Len(consumed) + 1
         /\ l.ok
         /\ n \in DOMAIN results
         /\ e.Action \in {"run", "pass", "fail", "skip"}
         /\ LifecycleAt(n) = {}) =>
            /\ DOMAIN results' = DOMAIN results
            /\ \A m \in DOMAIN results \ {n} : results'[m] = results[m]
            /\ results'[n].SubTests = results[n].SubTests
            /\ results'[n].SubTests # <<>>
            /\ results'[n].Name = n
            /\ results'[n].IsSubTest = results[n].IsSubTest
            /\ results'[n].ParentTest = results[n].ParentTest
            /\ results'[n].Status =
                   CASE e.Action = "pass" -> "PASS"
                     [] e.Action = "fail" -> "FAIL"
                     [] e.Action = "skip" -> "SKIP"
                     [] OTHER -> "UNKNOWN"
            /\ results'[n].Duration =
                   IF e.Action \in {"pass", "fail"} /\ e.Elapsed > 0
                   THEN e.Elapsed
                   ELSE 0

\* C28: when a name has a placeholder entry and its own first run, pass,
\* fail or skip event arrives, the entry is updated in place: no entry is
\* created, the entry keeps its SubTests and its other fields, and the
\* event sets Status and Duration as it does for any other entry.
C28_PlaceholderUpdatedInPlace == [][C28_Step]_vars

\* run A/B creates the placeholder A; pass A with Elapsed 2 updates it
C28_Witness ==
    /\ Len(consumed) = 2
    /\ \A i \in 1..2 : consumed[i].ok
    /\ consumed[1].event.Action = "run" /\ consumed[1].event.Test = NameAB
    /\ consumed[2].event.Action = "pass" /\ consumed[2].event.Test = NameA
    /\ results[NameA].Status = "PASS"
    /\ results[NameA].Duration = 2
    /\ results[NameA].SubTests = <<NameAB>>

\* ------------------------------------------------------------------------
\* C29: in every state of the scan and in the returned model every name in
\* an entry's SubTests and every name in SortedTestNames is a key of
\* Results, so a lookup of such a name finds an entry.
C29_NamesAreKeys ==
    /\ \A n \in DOMAIN results :
           Range(results[n].SubTests) \subseteq DOMAIN results
    /\ pc = "done" =>
           /\ \A n \in DOMAIN Returned.Results :
                  Range(Returned.Results[n].SubTests)
                      \subseteq DOMAIN Returned.Results
           /\ Range(Returned.SortedTestNames) \subseteq DOMAIN Returned.Results

\* a returned model in which a placeholder subtest holds a subtest, next to
\* a top-level test
C29_Witness ==
    /\ pc = "done"
    /\ NameAB \in DOMAIN Returned.Results
    /\ Returned.Results[NameAB].SubTests = <<NameABC>>
    /\ Returned.SortedTestNames = <<NameA>>
    /\ \E i \in 1..Len(consumed) :
           consumed[i].ok /\ consumed[i].event.Action = "output"

\* ------------------------------------------------------------------------
\* positions in lines of the run events for name n
RunsIn(lines, n) ==
    {i \in 1..Len(lines) :
        /\ lines[i].ok
        /\ lines[i].event.Test = n
        /\ lines[i].event.Action = "run"}

\* a step that reads a run event: the event's timestamp becomes the recorded
\* start time, Status and Duration of an existing entry stay
C30_RunStep ==
    LET l == consumed'[Len(consumed')]
        e == l.event
        n == e.Test
    IN  (/\ Len(consumed') = Len(consumed) + 1
         /\ l.ok
         /\ n # <<>>
         /\ e.Action = "run") =>
            /\ testStartTime'[n] = e.Time
            /\ n \in DOMAIN results =>
                   /\ results'[n].Status = results[n].Status
                   /\ results'[n].Duration = results[n].Duration

\* a step that reads a pass or fail event: Elapsed > 0 becomes the
\* Duration; otherwise, if onlyNonZero is false or the most recent run
\* event did not carry the zero time, the Duration becomes the event's
\* timestamp minus that run event's timestamp
C30_TerminalStep(onlyNonZero) ==
    LET l == consumed'[Len(consumed')]
        e == l.event
        n == e.Test
    IN  (/\ Len(consumed') = Len(consumed) + 1
         /\ l.ok
         /\ n # <<>>
         /\ e.Action \in {"pass", "fail"}) =>
            IF e.Elapsed > 0 THEN results'[n].Duration = e.Elapsed
            ELSE (/\ RunsIn(consumed, n) # {}
                  /\ onlyNonZero =>
                         consumed[Max(RunsIn(consumed, n))].event.Time # 0) =>
                     results'[n].Duration =
                         e.Time - consumed[Max(RunsIn(consumed, n))].event.Time

\* C30 as stated: each run event of a name replaces its recorded start time
\* and changes neither Status nor Duration; a later pass or fail event with
\* Elapsed not > 0 sets Duration to its timestamp minus that of the most
\* recent run event; a terminal event that resolves a duration overwrites
\* the Duration.
C30_AsClaimed == [][C30_RunStep /\ C30_TerminalStep(FALSE)]_vars

\* C30 (amended): as stated, with the start-time fallback applying only
\* when the most recent run event of the name carried a timestamp other
\* than the zero time.
C30_LatestRunIsStartTime == [][C30_RunStep /\ C30_TerminalStep(TRUE)]_vars

\* run at 4, run again at 1, pass at 3 without Elapsed: 3 - 1
C30_Witness ==
    /\ Len(consumed) = 3
    /\ \A i \in 1..3 : consumed[i].ok /\ consumed[i].event.Test = NameA
    /\ consumed[1].event.Action = "run" /\ consumed[1].event.Time = 4
    /\ consumed[2].event.Action = "run" /\ consumed[2].event.Time = 1
    /\ consumed[3].event.Action = "pass" /\ consumed[3].event.Elapsed = 0
    /\ consumed[3].event.Time = 3
    /\ testStartTime[NameA] = 1
    /\ results[NameA].Duration = 2

====
